---- MODULE Spec2Model ----
(***************************************************************************)
(* pack-files (src/main.go): walk a directory, filter files by extension,  *)
(* write a tree report, a content report and a statistics summary.         *)
(*                                                                         *)
(* A Go string is modelled as a sequence of characters; a character is a   *)
(* one-symbol TLA+ string ("a", ".", "/"), a glyph outside ASCII is named  *)
(* by its code point ("U+2502").  Ord gives the byte order Go's < uses.    *)
(***************************************************************************)
EXTENDS Integers, Sequences, FiniteSets, TLC

\* ------------------------------------------------------------------ bounds
MaxFiles == 3
MaxTokens == 2
MaxTokLen == 2
MaxTextLen == 4

\* ------------------------------------------------------------ characters
\* Byte order of the characters the model uses (ASCII codes).
Ord ==
  [c \in {" ", "\t", "+", ",", "-", ".", "/", "1", "2", "3", "4", "5", "6", "7",
          "8", "9", "0", ":", "=", "A", "D", "E", "F", "G", "M", "O", "R",
          "a", "b", "c", "d", "e", "g", "h", "i", "l", "m", "o", "p", "q", "s", "t",
          "w", "x"} |->
     CASE c = "\t" -> 9   [] c = " " -> 32  [] c = "+" -> 43  [] c = "," -> 44
       [] c = "-" -> 45   [] c = "." -> 46  [] c = "/" -> 47  [] c = "0" -> 48
       [] c = "1" -> 49   [] c = "2" -> 50  [] c = "3" -> 51  [] c = "4" -> 52
       [] c = "5" -> 53   [] c = "6" -> 54  [] c = "7" -> 55  [] c = "8" -> 56
       [] c = "9" -> 57   [] c = ":" -> 58  [] c = "=" -> 61  [] c = "A" -> 65
       [] c = "D" -> 68   [] c = "E" -> 69  [] c = "F" -> 70  [] c = "G" -> 71
       [] c = "M" -> 77   [] c = "O" -> 79  [] c = "R" -> 82  [] c = "a" -> 97
       [] c = "b" -> 98   [] c = "c" -> 99  [] c = "d" -> 100 [] c = "e" -> 101
       [] c = "g" -> 103  [] c = "h" -> 104 [] c = "i" -> 105 [] c = "l" -> 108
       [] c = "m" -> 109  [] c = "o" -> 111 [] c = "p" -> 112 [] c = "q" -> 113
       [] c = "s" -> 115  [] c = "t" -> 116 [] c = "w" -> 119 [] c = "x" -> 120]

\* unicode.IsSpace / unicode.IsPunct on the model's characters.  "+" and "="
\* are Unicode symbols (category Sm), not punctuation.
IsSpace(c) == c \in {" ", "\t", "\n"}
IsPunct(c) == c \in {",", ".", "-", "/", ":", "#", "!"}

\* Simple case folding (strings.EqualFold) on the model's letters.
Fold(c) ==
  CASE c = "A" -> "a" [] c = "D" -> "d" [] c = "E" -> "e" [] c = "F" -> "f"
    [] c = "G" -> "g" [] c = "M" -> "m" [] c = "O" -> "o" [] c = "R" -> "r"
    [] OTHER -> c

\* ---------------------------------------------------------------- strings
RECURSIVE StrLess(_, _)
\* Go's s < t on strings: bytewise lexicographic order.
StrLess(s, t) ==
  IF t = <<>> THEN FALSE
  ELSE IF s = <<>> THEN TRUE
  ELSE IF Ord[Head(s)] < Ord[Head(t)] THEN TRUE
  ELSE IF Ord[Head(s)] > Ord[Head(t)] THEN FALSE
  ELSE StrLess(Tail(s), Tail(t))

\* strings.EqualFold(s, t)
EqualFold(s, t) ==
  /\ Len(s) = Len(t)
  /\ \A i \in 1..Len(s) : Fold(s[i]) = Fold(t[i])

\* strings.HasPrefix(s, p)
HasPrefix(s, p) == Len(s) >= Len(p) /\ SubSeq(s, 1, Len(p)) = p

RECURSIVE TrimLeft(_)
TrimLeft(s) == IF s # <<>> /\ IsSpace(Head(s)) THEN TrimLeft(Tail(s)) ELSE s

RECURSIVE TrimRight(_)
TrimRight(s) ==
  IF s # <<>> /\ IsSpace(s[Len(s)]) THEN TrimRight(SubSeq(s, 1, Len(s) - 1)) ELSE s

\* strings.TrimSpace(s)
TrimSpace(s) == TrimRight(TrimLeft(s))

RECURSIVE Split(_, _)
\* strings.Split(s, sep) for a one-character sep: Split("", ",") is [""].
Split(s, sep) ==
  IF \A i \in 1..Len(s) : s[i] # sep THEN <<s>>
  ELSE LET k == CHOOSE i \in 1..Len(s) :
                  s[i] = sep /\ \A j \in 1..(i - 1) : s[j] # sep
       IN  <<SubSeq(s, 1, k - 1)>> \o Split(SubSeq(s, k + 1, Len(s)), sep)

RECURSIVE JoinWith(_, _)
\* strings.Join(elems, sep)
JoinWith(elems, sep) ==
  IF elems = <<>> THEN <<>>
  ELSE IF Len(elems) = 1 THEN elems[1]
  ELSE elems[1] \o sep \o JoinWith(Tail(elems), sep)

RECURSIVE Repeat(_, _)
\* strings.Repeat(s, n)
Repeat(s, n) == IF n <= 0 THEN <<>> ELSE s \o Repeat(s, n - 1)

RECURSIVE Itoa(_)
\* %d of a non-negative int
Itoa(n) ==
  LET digit(d) == <<"0", "1", "2", "3", "4", "5", "6", "7", "8", "9">>[d + 1]
  IN  IF n < 10 THEN <<digit(n)>> ELSE Itoa(n \div 10) \o <<digit(n % 10)>>

RECURSIVE SelectNonEmpty(_)
SelectNonEmpty(ss) ==
  IF ss = <<>> THEN <<>>
  ELSE IF Head(ss) = <<>> THEN SelectNonEmpty(Tail(ss))
  ELSE <<Head(ss)>> \o SelectNonEmpty(Tail(ss))

\* ------------------------------------------------------------ path/filepath
\* filepath.Ext(path): the suffix from the last "." of the last element.
RECURSIVE ExtFrom(_, _)
ExtFrom(path, i) ==
  IF i < 1 \/ path[i] = "/" THEN <<>>
  ELSE IF path[i] = "." THEN SubSeq(path, i, Len(path))
  ELSE ExtFrom(path, i - 1)

Ext(path) == ExtFrom(path, Len(path))

\* One element of filepath.Clean's pass: drop "" and ".", resolve "..".
CleanStep(e, out, rooted) ==
  IF e = <<>> \/ e = <<".">> THEN out
  ELSE IF e = <<".", ".">> THEN
    IF out # <<>> /\ out[Len(out)] # <<".", ".">> THEN SubSeq(out, 1, Len(out) - 1)
    ELSE IF rooted THEN out
    ELSE Append(out, e)
  ELSE Append(out, e)

RECURSIVE CleanElems(_, _, _)
CleanElems(elems, out, rooted) ==
  IF elems = <<>> THEN out
  ELSE CleanElems(Tail(elems), CleanStep(Head(elems), out, rooted), rooted)

CleanJoin(rooted, elems) ==
  IF rooted THEN <<"/">> \o JoinWith(elems, <<"/">>)
  ELSE IF elems = <<>> THEN <<".">>
  ELSE JoinWith(elems, <<"/">>)

\* filepath.Clean(path)
Clean(path) ==
  IF path = <<>> THEN <<".">>
  ELSE CleanJoin(Head(path) = "/", CleanElems(Split(path, "/"), <<>>, Head(path) = "/"))

\* filepath.Join(elems...): empty elements are ignored, the result is Cleaned.
JoinNonEmpty(ne) == IF ne = <<>> THEN <<>> ELSE Clean(JoinWith(ne, <<"/">>))

Join(elems) == JoinNonEmpty(SelectNonEmpty(elems))

RECURSIVE StripSlashes(_)
StripSlashes(p) ==
  IF p # <<>> /\ p[Len(p)] = "/" THEN StripSlashes(SubSeq(p, 1, Len(p) - 1)) ELSE p

\* filepath.Base(path)
LastElem(p) == IF p = <<>> THEN <<"/">> ELSE Split(p, "/")[Len(Split(p, "/"))]

Base(path) == IF path = <<>> THEN <<".">> ELSE LastElem(StripSlashes(path))

RECURSIVE CommonLen(_, _)
CommonLen(a, b) ==
  IF a = <<>> \/ b = <<>> \/ Head(a) # Head(b) THEN 0
  ELSE 1 + CommonLen(Tail(a), Tail(b))

RelFails == [ok |-> FALSE, path |-> <<>>]

\* Rel once the common elements are dropped: base may not climb with "..".
RelRest(brest, trest) ==
  IF brest # <<>> /\ brest[1] = <<".", ".">> THEN RelFails
  ELSE [ok |-> TRUE,
        path |-> JoinWith([i \in 1..Len(brest) |-> <<".", ".">>] \o trest, <<"/">>)]

RelElems(bc, tc) ==
  RelRest(SubSeq(bc, CommonLen(bc, tc) + 1, Len(bc)),
          SubSeq(tc, CommonLen(bc, tc) + 1, Len(tc)))

\* baseSlashed != targSlashed: one path is absolute and the other is not.
RelBase(base, targ) ==
  IF (base # <<>> /\ Head(base) = "/") # (targ # <<>> /\ Head(targ) = "/") THEN RelFails
  ELSE RelElems(SelectNonEmpty(Split(base, "/")), SelectNonEmpty(Split(targ, "/")))

RelClean(base, targ) ==
  IF targ = base THEN [ok |-> TRUE, path |-> <<".">>]
  ELSE RelBase(IF base = <<".">> THEN <<>> ELSE base, targ)

\* filepath.Rel(basepath, targpath): [ok, path]
Rel(basepath, targpath) == RelClean(Clean(basepath), Clean(targpath))

\* ------------------------------------------------------ normalizeExtensions
RECURSIVE normalizeExtensionsDoubleDot(_)
\* A normalizer that always prepends the dot.
normalizeExtensionsDoubleDot(exts) ==
  IF exts = <<>> THEN <<>>
  ELSE LET ext == TrimSpace(Head(exts))
       IN  IF ext = <<>> THEN normalizeExtensionsDoubleDot(Tail(exts))
           ELSE <<(<<".">> \o ext)>> \o normalizeExtensionsDoubleDot(Tail(exts))

RECURSIVE normalizeExtensions(_)
\* trim each token, skip the empty ones, prepend "." when missing
normalizeExtensions(exts) ==
  IF exts = <<>> THEN <<>>
  ELSE LET ext == TrimSpace(Head(exts))
       IN  IF ext = <<>> THEN normalizeExtensions(Tail(exts))
           ELSE <<(IF HasPrefix(ext, <<".">>) THEN ext ELSE <<".">> \o ext)>>
                  \o normalizeExtensions(Tail(exts))

\* -------------------------------------------------------------- countTokens
\* One rune of strings.FieldsFunc; start = 0 stands for Go's start = -1.
FieldsStep(text, end, st) ==
  IF IsSpace(text[end]) \/ IsPunct(text[end])
    THEN IF st.start > 0
           THEN [start |-> 0, spans |-> Append(st.spans, SubSeq(text, st.start, end - 1))]
           ELSE st
  ELSE IF st.start > 0 THEN st
  ELSE [start |-> end, spans |-> st.spans]

RECURSIVE FieldsScan(_, _, _)
FieldsScan(text, end, st) ==
  IF end > Len(text)
    THEN IF st.start > 0 THEN Append(st.spans, SubSeq(text, st.start, Len(text)))
         ELSE st.spans
  ELSE FieldsScan(text, end + 1, FieldsStep(text, end, st))

\* strings.FieldsFunc(text, IsSpace or IsPunct)
FieldsFunc(text) == FieldsScan(text, 1, [start |-> 0, spans |-> <<>>])

\* A tokenizer that splits on whitespace only.
countTokensSpaceOnly(text) ==
  LET blank(i) == IsSpace(text[i])
  IN  Cardinality({i \in 1..Len(text) : ~blank(i) /\ (i = 1 \/ blank(i - 1))})

\* len of the non-empty fields
countTokens(text) == Len(SelectNonEmpty(FieldsFunc(text)))

\* ------------------------------------------------------------- the file tree
\* The files a root directory may hold, by path components below the root.
str_a_go   == <<"a", ".", "g", "o">>
str_a      == <<"a">>
str_b_go   == <<"b", ".", "g", "o">>
str_c_GO   == <<"c", ".", "G", "O">>
str_d_md   == <<"d", ".", "m", "d">>
str_e_html == <<"e", ".", "h", "t", "m", "l">>
str_README == <<"R", "E", "A", "D", "M", "E">>

Candidates ==
  { [rel |-> <<str_a_go>>,       content |-> <<"a", ",", " ", "b", ".", " ", " ", "c">>],
    [rel |-> <<str_a, str_b_go>>, content |-> <<"a", " ", "b", " ", "c">>],
    [rel |-> <<str_a, str_c_GO>>, content |-> <<>>],
    [rel |-> <<str_d_md>>,       content |-> <<"x", "+", "y">>],
    [rel |-> <<str_e_html>>,     content |-> <<"e">>],
    [rel |-> <<str_README>>,     content |-> <<"a", "-", "b">>] }

\* -dir values: the default ".", a relative directory, an absolute one.
RootDirs == { <<".">>, <<"p">>, <<"/", "w", "/", "q">> }
\* os.Getwd()
Cwd == <<"/", "w", "/", "p">>

\* -include values: the default "md,go,mbt", "" (all files), " GO ,.md"
IncludeFlags ==
  { <<"m", "d", ",", "g", "o", ",", "m", "b", "t">>,
    <<>>,
    <<" ", "G", "O", " ", ",", ".", "m", "d">> }
\* -exclude values: the default "html,css", "", "go"
ExcludeFlags ==
  { <<"h", "t", "m", "l", ",", "c", "s", "s">>, <<>>, <<"g", "o">> }

OutputNames == {"structure", "content", "summary"}

\* ------------------------------------------------------------ walkDirectory
\* One pass of the include loop, then the exclude loop, of the walk callback.
RECURSIVE AnyEqualFold(_, _)
AnyEqualFold(ext, exts) ==
  IF exts = <<>> THEN FALSE
  ELSE IF EqualFold(ext, Head(exts)) THEN TRUE
  ELSE AnyEqualFold(ext, Tail(exts))

\* A filter in which a match of the include list survives the exclude list.
includeFileIncludeWins(path, includeExts, excludeExts) ==
  LET ext == Ext(path)
  IN  IF includeExts = <<>> THEN ~AnyEqualFold(ext, excludeExts)
      ELSE AnyEqualFold(ext, includeExts)

\* includeFile at line 167 for a non-directory path
includeFile(path, includeExts, excludeExts) ==
  LET ext == Ext(path)
      inc == IF Len(includeExts) = 0 THEN TRUE ELSE AnyEqualFold(ext, includeExts)
  IN  IF AnyEqualFold(ext, excludeExts) THEN FALSE ELSE inc

RECURSIVE SortStrings(_)
\* sort.Strings over the names of one directory (readDirNames)
SortStrings(S) ==
  IF S = {} THEN <<>>
  ELSE LET m == CHOOSE x \in S : \A y \in S \ {x} : StrLess(x, y)
       IN  <<m>> \o SortStrings(S \ {m})

FileEntry(filename, f) ==
  [Path |-> filename, IsDir |-> FALSE, Size |-> Len(f.content), Content |-> f.content]

DirEntry(filename) == [Path |-> filename, IsDir |-> TRUE, Size |-> 0, Content |-> <<>>]

RECURSIVE WalkNames(_, _, _, _)
RECURSIVE WalkDir(_, _, _)
RECURSIVE WalkEntry(_, _, _)
\* filepath.Walk below directory `path` (components `rel` below the root):
\* the entries in visiting order, names sorted, a directory before what it holds.
WalkDir(tree, path, rel) ==
  WalkNames(tree, path, rel,
            SortStrings({f.rel[Len(rel) + 1] :
                           f \in {g \in tree : /\ Len(g.rel) > Len(rel)
                                               /\ SubSeq(g.rel, 1, Len(rel)) = rel}}))

WalkEntry(tree, filename, crel) ==
  IF \E f \in tree : f.rel = crel
    THEN <<FileEntry(filename, CHOOSE g \in tree : g.rel = crel)>>
    ELSE <<DirEntry(filename)>> \o WalkDir(tree, filename, crel)

WalkNames(tree, path, rel, names) ==
  IF names = <<>> THEN <<>>
  ELSE WalkEntry(tree, Join(<<path, Head(names)>>), Append(rel, Head(names)))
         \o WalkNames(tree, path, rel, Tail(names))

\* filepath.Walk(root, fn): the root itself, then everything below it.
Walk(tree, root) == <<DirEntry(root)>> \o WalkDir(tree, root, <<>>)

\* ---------------------------------------------------- generateStructureFile
RECURSIVE InsertByPath(_, _)
InsertByPath(f, sorted) ==
  IF sorted = <<>> THEN <<f>>
  ELSE IF StrLess(f.Path, Head(sorted).Path) THEN <<f>> \o sorted
  ELSE <<Head(sorted)>> \o InsertByPath(f, Tail(sorted))

RECURSIVE SortByPath(_)
\* sort.Slice(files, files[i].Path < files[j].Path); the paths are distinct,
\* so the order is determined.
SortByPath(files) ==
  IF files = <<>> THEN <<>>
  ELSE InsertByPath(Head(files), SortByPath(Tail(files)))

\* A renderer that keeps the order it is given.
SortForDisplayNone(files) == files

\* lines 204-207
SortForDisplay(files) == SortByPath(files)

\* "│   " and "├── " and "└── "
BarIndent   == <<"U+2502", " ", " ", " ">>
BranchGlyph == <<"U+251C", "U+2500", "U+2500", " ">>
RootGlyph   == <<"U+2514", "U+2500", "U+2500", " ">>

\* The line Fprintf writes for component i (zero-based) of a relative path,
\* with the loop's currentPath, depth and kind beside its text.
TreeLine(components, i, currentPath, isDir) ==
  [text  |-> <<" ", " ", " ", " ">> \o Repeat(BarIndent, i) \o BranchGlyph
               \o components[i + 1] \o (IF isDir THEN <<"/">> ELSE <<>>),
   path  |-> currentPath,
   depth |-> i,
   isDir |-> isDir]

\* !dirs[currentPath] at line 243
DirNotYetShown(dirs, currentPath) == currentPath \notin dirs

\* One turn of the loop of lines 234-252; st is [dirs, out].
RenderComponent(components, i, currentPath, st) ==
  IF i # Len(components) - 1 /\ DirNotYetShown(st.dirs, currentPath)
    THEN [dirs |-> st.dirs \cup {currentPath},
          out  |-> Append(st.out, TreeLine(components, i, currentPath, TRUE))]
  ELSE IF i = Len(components) - 1
    THEN [dirs |-> st.dirs,
          out  |-> Append(st.out, TreeLine(components, i, currentPath, FALSE))]
  ELSE st

RECURSIVE RenderComponents(_, _, _)
RenderComponents(components, i, st) ==
  IF i >= Len(components) THEN st
  ELSE RenderComponents(components, i + 1,
         RenderComponent(components, i, Join(SubSeq(components, 1, i + 1)), st))

RECURSIVE RenderFiles(_, _, _)
RECURSIVE RenderFile(_, _, _, _)
\* The loop of lines 223-253: [ok, out]; not ok when filepath.Rel fails.
RenderFiles(files, rootPath, st) ==
  IF files = <<>> THEN [ok |-> TRUE, out |-> st.out]
  ELSE RenderFile(files, rootPath, st, Rel(rootPath, Head(files).Path))

RenderFile(files, rootPath, st, rel) ==
  IF ~rel.ok THEN [ok |-> FALSE, out |-> st.out]
  ELSE RenderFiles(Tail(files), rootPath,
                   RenderComponents(Split(rel.path, "/"), 0, st))

\* rootPath of lines 210-217
RootPath(rootDir) == IF rootDir = <<".">> THEN Cwd ELSE rootDir

TitleLine ==
  [text |-> <<"D", "i", "r", "e", "c", "t", "o", "r", "y", " ",
              "s", "t", "r", "u", "c", "t", "u", "r", "e", ":">>,
   path |-> <<>>, depth |-> 0, isDir |-> FALSE]

RootLine(rootPath) ==
  [text |-> RootGlyph \o Base(rootPath) \o <<"/">>,
   path |-> <<>>, depth |-> 0, isDir |-> TRUE]

RenderResult(sorted, body) == [ok |-> body.ok, lines |-> body.out, files |-> sorted]

RenderSorted(sorted, rootPath) ==
  RenderResult(sorted,
               RenderFiles(sorted, rootPath,
                           [dirs |-> {}, out |-> <<TitleLine, RootLine(rootPath)>>]))

\* What generateStructureFile writes after os.Create succeeded, the slice as
\* it leaves it, and whether it returns nil.
RenderStructure(files, rootDir) == RenderSorted(SortForDisplay(files), RootPath(rootDir))

\* ------------------------------------------------------ generateContentFile
Separator48 == [i \in 1..48 |-> "="]

\* The lines written for files[i] (one-based i).
ContentEntry(files, i) ==
  (IF i > 1 THEN << <<>> >> ELSE <<>>)
    \o << Separator48,
          <<"F", "i", "l", "e", " ">> \o Itoa(i) \o <<":", " ">> \o files[i].Path,
          Separator48,
          files[i].Content >>

RECURSIVE ContentLines(_, _)
ContentLines(files, i) ==
  IF i > Len(files) THEN <<>> ELSE ContentEntry(files, i) \o ContentLines(files, i + 1)

\* A float64 is kept as the exact quotient num/den; the zero value is 0/1.
Float(num, den) == [num |-> num, den |-> den]
ZeroStatistics ==
  [TotalFiles |-> 0, TotalSize |-> 0, AverageFileSize |-> Float(0, 1),
   TotalTokens |-> 0, AverageTokens |-> Float(0, 1)]

RECURSIVE StatsLoop(_, _)
\* lines 288-292, once per file
StatsLoop(files, stats) ==
  IF files = <<>> THEN stats
  ELSE StatsLoop(Tail(files),
                 [stats EXCEPT !.TotalSize   = @ + Head(files).Size,
                               !.TotalTokens = @ + countTokens(Head(files).Content)])

\* Averages taken without the guard of line 296.
AveragesUnguarded(stats) ==
  [stats EXCEPT !.AverageFileSize = Float(stats.TotalSize, stats.TotalFiles),
                !.AverageTokens   = Float(stats.TotalTokens, stats.TotalFiles)]

\* lines 295-299
Averages(stats) ==
  IF stats.TotalFiles > 0
    THEN [stats EXCEPT !.AverageFileSize = Float(stats.TotalSize, stats.TotalFiles),
                       !.AverageTokens   = Float(stats.TotalTokens, stats.TotalFiles)]
    ELSE stats

\* lines 268-301
CollectStatistics(files) ==
  Averages(StatsLoop(files, [ZeroStatistics EXCEPT !.TotalFiles = Len(files)]))

\* ------------------------------------------------------ generateSummaryFile
\* %.2f of num/den: the quotient rounded to hundredths, ties to even.
Fixed2(num, den) ==
  LET q == (100 * num) \div den
      r == (100 * num) % den
      h == IF 2 * r > den \/ (2 * r = den /\ q % 2 = 1) THEN q + 1 ELSE q
      frac == h % 100
  IN  Itoa(h \div 100) \o <<".">> \o (IF frac < 10 THEN <<"0">> ELSE <<>>) \o Itoa(frac)

\* The numbers of the summary lines, in the order written (lines 334-339).
SummaryLines(stats) ==
  << [label |-> "Statistics Summary",      value |-> <<>>],
     [label |-> "=================",       value |-> <<>>],
     [label |-> "Total files processed: ", value |-> Itoa(stats.TotalFiles)],
     [label |-> "Total file size KB: ",    value |-> Fixed2(stats.TotalSize, 1024)],
     [label |-> "Total file size MB: ",    value |-> Fixed2(stats.TotalSize, 1024 * 1024)],
     [label |-> "Average file size: ",
      value |-> Fixed2(stats.AverageFileSize.num, stats.AverageFileSize.den * 1024)],
     [label |-> "Total tokens: ",          value |-> Itoa(stats.TotalTokens)],
     [label |-> "Average tokens per file: ",
      value |-> Fixed2(stats.AverageTokens.num, stats.AverageTokens.den)] >>

\* ------------------------------------------------------------------ state
VARIABLES
  pc,          \* where main stands
  rootDir,     \* -dir
  includeFlag, \* -include
  excludeFlag, \* -exclude
  tree,        \* the files below the root directory
  options,     \* Options.includeExts / excludeExts
  rootStat,    \* what os.Stat and os.Lstat say about the root
  queue,       \* the entries filepath.Walk has still to visit
  files,       \* filteredFiles, then main's files (one backing array)
  walkErr,     \* the error walkDirectory returns
  walked,      \* the list as walkDirectory returned it
  disk,        \* the three output files
  open,        \* the output files open now
  stats,       \* Statistics
  cause,       \* why the process exited with status 1
  failedAt,    \* the stage that exited
  norm,        \* normalizeExtensions applied to a token list
  tok          \* countTokens applied to a text

vars == <<pc, rootDir, includeFlag, excludeFlag, tree, options, rootStat, queue,
          files, walkErr, walked, disk, open, stats, cause, failedAt, norm, tok>>

runVars == <<pc, rootDir, includeFlag, excludeFlag, tree, options, rootStat, queue,
             files, walkErr, walked, disk, open, stats, cause, failedAt>>

NormIdle == [in |-> <<>>, out |-> <<>>, again |-> <<>>, step |-> 0]
TokIdle  == [text |-> <<>>, count |-> 0, text2 |-> <<>>, count2 |-> 0, step |-> "idle"]

Untouched == {[state |-> "absent", data |-> <<>>], [state |-> "stale", data |-> <<>>]}
Written(data) == [state |-> "written", data |-> data]

\* The state of a run before main's first statement.
RunStart(p) ==
  /\ pc = p
  /\ options = [includeExts |-> <<>>, excludeExts |-> <<>>]
  /\ rootStat = "unknown"
  /\ queue = <<>>
  /\ files = <<>>
  /\ walkErr = FALSE
  /\ walked = <<>>
  /\ open = {}
  /\ stats = ZeroStatistics
  /\ cause = "none"
  /\ failedAt = "none"

Init ==
  /\ RunStart("main")
  /\ rootDir \in RootDirs
  /\ includeFlag \in IncludeFlags
  /\ excludeFlag \in ExcludeFlags
  /\ tree \in {T \in SUBSET Candidates : Cardinality(T) <= MaxFiles}
  /\ disk \in [OutputNames -> Untouched]
  /\ norm = NormIdle
  /\ tok = TokIdle

\* os.Exit(1)
Exit1(why, stage) ==
  /\ pc' = "exit1"
  /\ cause' = why
  /\ failedAt' = stage

\* lines 36-43
PrepareOptions ==
  /\ pc = "main"
  /\ options' = [includeExts |-> normalizeExtensions(Split(includeFlag, ",")),
                 excludeExts |-> normalizeExtensions(Split(excludeFlag, ","))]
  /\ pc' = "checkRoot"
  /\ UNCHANGED <<rootDir, includeFlag, excludeFlag, tree, rootStat, queue, files,
                 walkErr, walked, disk, open, stats, cause, failedAt, norm, tok>>

\* lines 45-49: os.Stat, exit only when the error is "does not exist"
CheckRoot ==
  /\ pc = "checkRoot"
  /\ \E st \in {"ok", "notexist", "denied"} :
       /\ rootStat' = st
       /\ IF st = "notexist"
            THEN Exit1("root-not-found", "root")
            ELSE pc' = "walk" /\ UNCHANGED <<cause, failedAt>>
  /\ UNCHANGED <<rootDir, includeFlag, excludeFlag, tree, options, queue, files,
                 walkErr, walked, disk, open, stats, norm, tok>>

\* filepath.Walk's os.Lstat(root): on error the callback returns it (137-139)
WalkBegin ==
  /\ pc = "walk"
  /\ IF rootStat # "ok"
       THEN walkErr' = TRUE /\ pc' = "walkReturn" /\ UNCHANGED queue
       ELSE walkErr' = FALSE /\ pc' = "walking" /\ queue' = Walk(tree, rootDir)
  /\ UNCHANGED <<rootDir, includeFlag, excludeFlag, tree, options, rootStat, files,
                 walked, disk, open, stats, cause, failedAt, norm, tok>>

\* One call of the walk callback (lines 136-184).  An entry that cannot be
\* stat'ed or listed (err != nil, line 137) and a selected file that cannot be
\* read (line 170) both end the walk with an error.
WalkVisit ==
  /\ pc = "walking"
  /\ queue # <<>>
  /\ \E ioOk \in BOOLEAN :
       IF ~ioOk
         THEN walkErr' = TRUE /\ pc' = "walkReturn" /\ UNCHANGED <<files, queue>>
       ELSE IF Head(queue).IsDir
         THEN queue' = Tail(queue) /\ UNCHANGED <<files, walkErr, pc>>
       ELSE IF includeFile(Head(queue).Path, options.includeExts, options.excludeExts)
         THEN /\ files' = Append(files, Head(queue))
              /\ queue' = Tail(queue)
              /\ UNCHANGED <<walkErr, pc>>
       ELSE queue' = Tail(queue) /\ UNCHANGED <<files, walkErr, pc>>
  /\ UNCHANGED <<rootDir, includeFlag, excludeFlag, tree, options, rootStat, walked,
                 disk, open, stats, cause, failedAt, norm, tok>>

\* filepath.Walk has visited everything: walkDirectory returns (line 186)
WalkDone ==
  /\ pc = "walking"
  /\ queue = <<>>
  /\ pc' = "walkReturn"
  /\ UNCHANGED <<rootDir, includeFlag, excludeFlag, tree, options, rootStat, queue,
                 files, walkErr, walked, disk, open, stats, cause, failedAt, norm, tok>>

\* A main that goes on after a failed walk.
WalkAbortsNever(err) == FALSE

\* err != nil at line 61
WalkAborts(err) == err

\* lines 60-64
WalkReturn ==
  /\ pc = "walkReturn"
  /\ IF WalkAborts(walkErr)
       THEN Exit1("traversal", "walk") /\ UNCHANGED walked
       ELSE pc' = "structure" /\ walked' = files /\ UNCHANGED <<cause, failedAt>>
  /\ UNCHANGED <<rootDir, includeFlag, excludeFlag, tree, options, rootStat, queue,
                 files, walkErr, disk, open, stats, norm, tok>>

\* os.Create of one output file: it is truncated and open, or the stage fails.
Create(name, stage, body) ==
  /\ pc = stage
  /\ \E ok \in BOOLEAN :
       IF ok
         THEN /\ disk' = [disk EXCEPT ![name] = Written(<<>>)]
              /\ open' = open \cup {name}
              /\ pc' = body
              /\ UNCHANGED <<cause, failedAt>>
         ELSE Exit1("create", stage) /\ UNCHANGED <<disk, open>>

\* A stage that returns without closing its file.
ClosedNever(handles, name) == handles

\* defer file.Close() (lines 196, 265, 329)
Closed(handles, name) == handles \ {name}

\* lines 192-196
StructureCreate ==
  /\ Create("structure", "structure", "structureBody")
  /\ UNCHANGED <<rootDir, includeFlag, excludeFlag, tree, options, rootStat, queue,
                 files, walkErr, walked, stats, norm, tok>>

StructureWrite(r) ==
  /\ disk' = [disk EXCEPT !["structure"] = Written(r.lines)]
  /\ files' = r.files
  /\ IF r.ok THEN pc' = "content" /\ UNCHANGED <<cause, failedAt>>
     ELSE Exit1("rel", "structure")

\* lines 198-255, and main's lines 67-70
StructureBody ==
  /\ pc = "structureBody"
  /\ StructureWrite(RenderStructure(files, rootDir))
  /\ open' = Closed(open, "structure")
  /\ UNCHANGED <<rootDir, includeFlag, excludeFlag, tree, options, rootStat, queue,
                 walkErr, walked, stats, norm, tok>>

\* lines 261-265
ContentCreate ==
  /\ Create("content", "content", "contentBody")
  /\ UNCHANGED <<rootDir, includeFlag, excludeFlag, tree, options, rootStat, queue,
                 files, walkErr, walked, stats, norm, tok>>

\* lines 267-301, and main's lines 73-77
ContentBody ==
  /\ pc = "contentBody"
  /\ disk' = [disk EXCEPT !["content"] = Written(ContentLines(files, 1))]
  /\ stats' = CollectStatistics(files)
  /\ open' = Closed(open, "content")
  /\ pc' = "summary"
  /\ UNCHANGED <<rootDir, includeFlag, excludeFlag, tree, options, rootStat, queue,
                 files, walkErr, walked, cause, failedAt, norm, tok>>

\* lines 325-329
SummaryCreate ==
  /\ Create("summary", "summary", "summaryBody")
  /\ UNCHANGED <<rootDir, includeFlag, excludeFlag, tree, options, rootStat, queue,
                 files, walkErr, walked, stats, norm, tok>>

\* lines 331-341, and main's lines 80-85
SummaryBody ==
  /\ pc = "summaryBody"
  /\ disk' = [disk EXCEPT !["summary"] = Written(SummaryLines(stats))]
  /\ open' = Closed(open, "summary")
  /\ pc' = "done"
  /\ UNCHANGED <<rootDir, includeFlag, excludeFlag, tree, options, rootStat, queue,
                 files, walkErr, walked, stats, cause, failedAt, norm, tok>>

Next ==
  \/ PrepareOptions
  \/ CheckRoot
  \/ WalkBegin
  \/ WalkVisit
  \/ WalkDone
  \/ WalkReturn
  \/ StructureCreate
  \/ StructureBody
  \/ ContentCreate
  \/ ContentBody
  \/ SummaryCreate
  \/ SummaryBody

Spec == Init /\ [][Next]_vars

\* ----------------------------------- normalizeExtensions as a pure function
NormAlphabet == {" ", ".", "a"}
NormTokens == UNION {[1..n -> NormAlphabet] : n \in 0..MaxTokLen}
NormLists == UNION {[1..n -> NormTokens] : n \in 0..MaxTokens}

\* No run: only the pure-function variables move.
NoRun ==
  /\ RunStart("idle")
  /\ rootDir = <<".">>
  /\ includeFlag = <<>>
  /\ excludeFlag = <<>>
  /\ tree = {}
  /\ disk = [o \in OutputNames |-> [state |-> "absent", data |-> <<>>]]

InitNorm ==
  /\ NoRun
  /\ norm \in {[in |-> l, out |-> <<>>, again |-> <<>>, step |-> 0] : l \in NormLists}
  /\ tok = TokIdle

NormalizeOnce ==
  /\ norm.step = 0
  /\ norm' = [norm EXCEPT !.out = normalizeExtensions(norm.in), !.step = 1]
  /\ UNCHANGED <<runVars, tok>>

NormalizeAgain ==
  /\ norm.step = 1
  /\ norm' = [norm EXCEPT !.again = normalizeExtensions(norm.out), !.step = 2]
  /\ UNCHANGED <<runVars, tok>>

NextNorm == NormalizeOnce \/ NormalizeAgain

SpecNorm == InitNorm /\ [][NextNorm]_vars

\* ------------------------------------------- countTokens as a pure function
TokAlphabet == {"a", " ", ",", "+"}
ExamplePunct  == <<"a", ",", " ", "b", ".", " ", " ", "c">>
ExampleSpaces == <<"a", " ", "b", " ", "c">>
TokTexts ==
  UNION {[1..n -> TokAlphabet] : n \in 0..MaxTextLen} \cup {ExamplePunct, ExampleSpaces}

IsDelim(c) == IsSpace(c) \/ IsPunct(c)
\* The non-empty delimiter runs a run may be replaced by.
DelimRuns == UNION {[1..n -> {" ", ",", "."}] : n \in 1..2}

\* text[i..j] is a maximal run of delimiters.
MaximalDelimRun(text, i, j) ==
  /\ i <= j
  /\ \A k \in i..j : IsDelim(text[k])
  /\ IF i = 1 THEN TRUE ELSE ~IsDelim(text[i - 1])
  /\ IF j = Len(text) THEN TRUE ELSE ~IsDelim(text[j + 1])

InitTok ==
  /\ NoRun
  /\ norm = NormIdle
  /\ tok \in {[text |-> t, count |-> 0, text2 |-> <<>>, count2 |-> 0, step |-> "idle"] :
                t \in TokTexts}

CountText ==
  /\ tok.step = "idle"
  /\ tok' = [tok EXCEPT !.count = countTokens(tok.text), !.step = "counted"]
  /\ UNCHANGED <<runVars, norm>>

\* Count the text again with one run of delimiters replaced by another.
CountReplaced ==
  /\ tok.step = "counted"
  /\ \E i \in 1..Len(tok.text), j \in 1..Len(tok.text), d \in DelimRuns :
       /\ MaximalDelimRun(tok.text, i, j)
       /\ IF Len(d) # j - i + 1 THEN TRUE
          ELSE [k \in 1..Len(d) |-> d[k]] # [k \in 1..Len(d) |-> tok.text[i + k - 1]]
       /\ tok' = [tok EXCEPT
                    !.text2  = SubSeq(tok.text, 1, i - 1) \o d
                                 \o SubSeq(tok.text, j + 1, Len(tok.text)),
                    !.count2 = countTokens(SubSeq(tok.text, 1, i - 1) \o d
                                 \o SubSeq(tok.text, j + 1, Len(tok.text))),
                    !.step   = "replaced"]
  /\ UNCHANGED <<runVars, norm>>

NextTok == CountText \/ CountReplaced

SpecTok == InitTok /\ [][NextTok]_vars

\* ================================================================== claims
\* walkDirectory has returned without an error.
WalkReturned ==
  \/ pc \in {"structure", "structureBody", "content", "contentBody", "summary",
             "summaryBody", "done"}
  \/ pc = "exit1" /\ failedAt \notin {"root", "walk"}

\* generateStructureFile has written its lines and returned.
StructureRendered ==
  \/ pc \in {"content", "contentBody", "summary", "summaryBody", "done"}
  \/ pc = "exit1" /\ (failedAt \in {"content", "summary"} \/ cause = "rel")

\* generateContentFile has returned.
ContentWritten ==
  \/ pc \in {"summary", "summaryBody", "done"}
  \/ pc = "exit1" /\ failedAt = "summary"

FileName(f) == f.rel[Len(f.rel)]
ExtMatches(name, exts) == \E i \in 1..Len(exts) : EqualFold(Ext(name), exts[i])
Selected(f) ==
  /\ options.includeExts = <<>> \/ ExtMatches(FileName(f), options.includeExts)
  /\ ~ExtMatches(FileName(f), options.excludeExts)
\* The path the walk gives file f of the tree.
WalkPath(f) == Join(<<rootDir>> \o f.rel)
Occurrences(path) == Cardinality({i \in 1..Len(walked) : walked[i].Path = path})

\* C1: once the walk has returned, every file of the tree whose extension
\* matches the include set (or any file when that set is empty) and no exclude
\* entry is in the list exactly once, every other file not at all (a file
\* matching an exclude entry is out even when it matches an include entry),
\* and no directory is recorded.
C1_ExcludeWins ==
  WalkReturned =>
    /\ \A f \in tree : Occurrences(WalkPath(f)) = IF Selected(f) THEN 1 ELSE 0
    /\ \A i \in 1..Len(walked) :
         /\ ~walked[i].IsDir
         /\ \E f \in tree : walked[i].Path = WalkPath(f)

\* A .go file in both sets is left out while another file is listed.
C1_Witness ==
  /\ WalkReturned
  /\ walked # <<>>
  /\ \E f \in tree :
       /\ ExtMatches(FileName(f), options.includeExts)
       /\ ExtMatches(FileName(f), options.excludeExts)
       /\ Occurrences(WalkPath(f)) = 0

\* C2: a run ends in failure only for a missing root, a traversal I/O error
\* or an output file that cannot be created; otherwise every stage succeeds.
C2_OnlyIOFailures ==
  pc = "exit1" => cause \in {"root-not-found", "traversal", "create"}

\* C3: the content report lists the records, File 1..N, in the order the
\* walk produced them.
C3_ContentInWalkOrder ==
  ContentWritten => disk["content"].data = ContentLines(walked, 1)

RECURSIVE SumTo(_, _)
SumTo(n, val) == IF n = 0 THEN 0 ELSE val[n] + SumTo(n - 1, val)

IsZero(x) == x.num = 0 /\ x.den > 0

\* C4: the Statistics generateContentFile returns has TotalFiles = the length
\* of the list, TotalSize = the sum of the sizes, TotalTokens = the sum of the
\* token counts; for an empty list both averages are 0.
C4_Statistics ==
  ContentWritten =>
    /\ stats.TotalFiles = Len(files)
    /\ stats.TotalSize = SumTo(Len(files), [i \in 1..Len(files) |-> files[i].Size])
    /\ stats.TotalTokens =
         SumTo(Len(files), [i \in 1..Len(files) |-> countTokens(files[i].Content)])
    /\ Len(files) = 0 => IsZero(stats.AverageFileSize) /\ IsZero(stats.AverageTokens)

\* Every file is allowed by an empty include set and all of them excluded.
C4_Witness ==
  /\ ContentWritten
  /\ tree # {}
  /\ options.includeExts = <<>>
  /\ files = <<>>
  /\ stats.TotalFiles = 0

Texts(lines) == [i \in 1..Len(lines) |-> lines[i].text]
Permuted(list, p) == [i \in 1..Len(list) |-> list[p[i]]]

\* C5: every permutation of the file list renders to the lines that were
\* written for the list the walk returned.
C5_OrderIndependent ==
  (pc = "content" \/ (pc = "exit1" /\ cause = "rel")) =>
    \A p \in Permutations(1..Len(walked)) :
      Texts(RenderStructure(Permuted(walked, p), rootDir).lines)
        = Texts(disk["structure"].data)

\* The walk's order is not the sorted order and the tree was rendered.
C5_Witness ==
  /\ pc = "content"
  /\ Len(walked) >= 2
  /\ walked # files
  /\ Len(disk["structure"].data) >= 2 + Len(walked)

\* C6: when the root does not exist, or the walk ends with an error, no
\* output file is created or truncated and none is open.
C6_NoOutputTouched ==
  (rootStat = "notexist" \/ walkErr) =>
    /\ \A o \in OutputNames : disk[o] \in Untouched
    /\ open = {}
    /\ pc \in {"walkReturn", "exit1"}

\* A file was already collected when a later read failed.
C6_Witness ==
  /\ walkErr
  /\ pc = "exit1"
  /\ files # <<>>
  /\ \E o \in OutputNames : disk[o].state = "stale"

\* The k-th (one-based) token that is not empty after trimming.
KeptIndex(in, k) ==
  CHOOSE i \in 1..Len(in) :
    /\ TrimSpace(in[i]) # <<>>
    /\ Cardinality({j \in 1..i : TrimSpace(in[j]) # <<>>}) = k
Dotted(t) == IF Head(t) = "." THEN t ELSE <<".">> \o t

\* C7: normalizeExtensions returns the tokens that are not empty after
\* trimming, in input order, each trimmed and with a dot prepended when it
\* has none; normalizing the result again changes nothing.
C7_Normalize ==
  /\ norm.step >= 1 =>
       /\ Len(norm.out) = Cardinality({i \in 1..Len(norm.in) : TrimSpace(norm.in[i]) # <<>>})
       /\ \A k \in 1..Len(norm.out) :
            norm.out[k] = Dotted(TrimSpace(norm.in[KeptIndex(norm.in, k)]))
  /\ norm.step = 2 => norm.again = norm.out

\* A token was dropped, one kept its own dot, one got a dot.
C7_Witness ==
  /\ norm.step = 2
  /\ Len(norm.out) < Len(norm.in)
  /\ \E i \in 1..Len(norm.in) : TrimSpace(norm.in[i]) # <<>> /\ norm.in[i] # TrimSpace(norm.in[i])
  /\ norm.again = norm.out
  /\ norm.out # <<>>

\* The number of maximal runs of non-delimiters.
TokenRuns(text) ==
  Cardinality({i \in 1..Len(text) :
                 ~IsDelim(text[i]) /\ (i = 1 \/ IsDelim(text[i - 1]))})

\* C8: countTokens is the number of maximal runs of characters that are
\* neither whitespace nor punctuation; replacing a run of delimiters by
\* another non-empty run leaves it unchanged; "a, b.  c" and "a b c" give 3,
\* a text of delimiters only gives 0.
C8_TokenCount ==
  /\ tok.step # "idle" => tok.count = TokenRuns(tok.text)
  /\ tok.step = "replaced" => tok.count2 = tok.count
  /\ (tok.step # "idle" /\ tok.text \in {ExamplePunct, ExampleSpaces}) => tok.count = 3
  /\ (tok.step # "idle" /\ \A i \in 1..Len(tok.text) : IsDelim(tok.text[i])) => tok.count = 0

\* A run of punctuation and spaces between two tokens was replaced.
C8_Witness ==
  /\ tok.step = "replaced"
  /\ tok.text = ExamplePunct
  /\ tok.count2 = 3
  /\ tok.text2 # tok.text

\* The files of the tree the walk returned, and the directories above them.
Listed == {f \in tree : Occurrences(WalkPath(f)) > 0}
RelPath(comps) == JoinWith(comps, <<"/">>)
DirPrefixes ==
  UNION {{RelPath(SubSeq(f.rel, 1, k)) : k \in 1..(Len(f.rel) - 1)} : f \in Listed}
Shown == SubSeq(disk["structure"].data, 3, Len(disk["structure"].data))
ShownAt(path, isDir) ==
  {i \in 1..Len(Shown) : Shown[i].path = path /\ Shown[i].isDir = isDir}

\* C9: the structure output is the title, the root line, then exactly one
\* line for each directory above a listed file and one line for each listed
\* file, each indented by its depth, a directory before the files beneath it.
C9_TreeLines ==
  StructureRendered =>
    /\ Len(disk["structure"].data) >= 2
    /\ disk["structure"].data[1] = TitleLine
    /\ disk["structure"].data[2] = RootLine(RootPath(rootDir))
    /\ \A d \in DirPrefixes : Cardinality(ShownAt(d, TRUE)) = 1
    /\ \A f \in Listed : Cardinality(ShownAt(RelPath(f.rel), FALSE)) = 1
    /\ Len(Shown) = Cardinality(DirPrefixes) + Cardinality(Listed)
    /\ \A i \in 1..Len(Shown) :
         /\ Shown[i].depth = Len(Split(Shown[i].path, "/")) - 1
         /\ HasPrefix(Shown[i].text,
                      <<" ", " ", " ", " ">> \o Repeat(BarIndent, Shown[i].depth)
                        \o BranchGlyph)
    /\ \A i \in 1..Len(Shown), j \in 1..Len(Shown) :
         (Shown[i].isDir /\ ~Shown[j].isDir
            /\ HasPrefix(Shown[j].path, Shown[i].path \o <<"/">>)) => i < j

\* The output files written so far, by where the run stands.
Progress ==
  CASE pc \in {"structureBody", "content"} -> 1
    [] pc \in {"contentBody", "summary"} -> 2
    [] pc \in {"summaryBody", "done"} -> 3
    [] pc = "exit1" /\ failedAt = "structure" /\ cause = "rel" -> 1
    [] pc = "exit1" /\ failedAt = "content" -> 1
    [] pc = "exit1" /\ failedAt = "summary" -> 2
    [] OTHER -> 0

OpenNow ==
  CASE pc = "structureBody" -> {"structure"}
    [] pc = "contentBody" -> {"content"}
    [] pc = "summaryBody" -> {"summary"}
    [] OTHER -> {}

\* C10: the stages run in the order walk, structure, content, summary; only
\* the running stage's file is open and it is closed when the stage ends; a
\* failed stage ends the run with status 1, no later file is created and the
\* files of the earlier stages stay as written.
C10_Stages ==
  /\ open = OpenNow
  /\ (disk["structure"].state = "written") = (Progress >= 1)
  /\ (disk["content"].state = "written") = (Progress >= 2)
  /\ (disk["summary"].state = "written") = (Progress >= 3)
  /\ (Progress >= 1 /\ pc # "structureBody") =>
        disk["structure"].data = RenderStructure(walked, rootDir).lines
  /\ (Progress >= 2 /\ pc # "contentBody") =>
        disk["content"].data = ContentLines(files, 1)
  /\ pc = "exit1" => cause # "none" /\ failedAt # "none"

\* The content stage failed after the structure file was written.
C10_Witness ==
  /\ pc = "exit1"
  /\ failedAt = "content"
  /\ Len(disk["structure"].data) > 2
  /\ disk["content"].state = "stale"
  /\ disk["summary"].state = "absent"

====
